---- MODULE Spec2Model ----
(***************************************************************************)
(* The product-matching pipeline of the teacher shopping assistant:        *)
(* the /upload handler, find_product_url, get_search_results and           *)
(* analyze_products_with_ai of app.py, and find_product_candidates with    *)
(* the storefront client get_zoho_commerce_products of app_candidates.py.  *)
(*                                                                         *)
(* A Python str is a sequence of one-character strings, so that lower(),   *)
(* split(), replace(), startswith() and the `in` test are computed.        *)
(***************************************************************************)
EXTENDS Integers, Sequences, FiniteSets, TLC

\* ---------------------------------------------------------------- bounds
\* anchors on one storefront search page
MaxAnchors == 2
\* largest best_match_number the ranking model declares (smallest is -1)
MaxNum == 3
\* products in one storefront API response
MaxProducts == 2
\* products in the one long storefront API response
LongLen == 12
\* elements the selectors find on the scraped page
MaxElements == 2
\* words in an item name given to the term extractor
MaxWords == 2

\* ------------------------------------------------------- str operations
UpperAlpha == <<"A", "B", "C", "D", "E", "F", "G", "H", "I", "J", "K", "L", "M", "N", "O", "P", "Q", "R", "S", "T", "U", "V", "W", "X", "Y", "Z">>
LowerAlpha == <<"a", "b", "c", "d", "e", "f", "g", "h", "i", "j", "k", "l", "m", "n", "o", "p", "q", "r", "s", "t", "u", "v", "w", "x", "y", "z">>

LowerChar(c) ==
    IF \E i \in 1..26 : UpperAlpha[i] = c
    THEN LowerAlpha[CHOOSE i \in 1..26 : UpperAlpha[i] = c]
    ELSE c

RECURSIVE lower(_)
lower(s) == IF s = <<>> THEN <<>> ELSE <<LowerChar(Head(s))>> \o lower(Tail(s))

IsSpace(c) == c \in {" ", "\t", "\n"}

RECURSIVE SplitFrom(_, _)
SplitFrom(s, cur) ==
    IF s = <<>>
    THEN IF cur = <<>> THEN <<>> ELSE <<cur>>
    ELSE IF IsSpace(Head(s))
         THEN IF cur = <<>>
              THEN SplitFrom(Tail(s), <<>>)
              ELSE <<cur>> \o SplitFrom(Tail(s), <<>>)
         ELSE SplitFrom(Tail(s), Append(cur, Head(s)))

\* str.split() with no argument: maximal runs of non-whitespace
split(s) == SplitFrom(s, <<>>)

RECURSIVE replace(_, _, _)
replace(s, old, new) ==
    IF s = <<>> THEN <<>>
    ELSE <<IF Head(s) = old THEN new ELSE Head(s)>> \o replace(Tail(s), old, new)

RECURSIVE lstrip(_)
lstrip(s) == IF s # <<>> /\ IsSpace(Head(s)) THEN lstrip(Tail(s)) ELSE s

RECURSIVE rstrip(_)
rstrip(s) ==
    IF s # <<>> /\ IsSpace(s[Len(s)]) THEN rstrip(SubSeq(s, 1, Len(s) - 1)) ELSE s

strip(s) == rstrip(lstrip(s))

startswith(s, prefix) ==
    Len(s) >= Len(prefix) /\ SubSeq(s, 1, Len(prefix)) = prefix

\* Python's `sub in s` on str
contains(sub, s) ==
    \E k \in 0..(Len(s) - Len(sub)) : SubSeq(s, k + 1, k + Len(sub)) = sub

Take(s, n) == SubSeq(s, 1, IF Len(s) < n THEN Len(s) ELSE n)

\* ------------------------------------------------------ string constants
NOT_FOUND == <<"N", "o", "t", " ", "F", "o", "u", "n", "d">>
STORE_ORIGIN == <<"h", "t", "t", "p", "s", ":", "/", "/", "w", "w", "w", ".", "s", "h", "o", "p", "b", "i", "o", "l", "i", "n", "k", "d", "e", "p", "o", "t", ".", "o", "r", "g">>
SEARCH_URL == STORE_ORIGIN \o <<"/", "s", "e", "a", "r", "c", "h", "?", "q", "=">>
PRODUCTS_PATH == <<"/", "p", "r", "o", "d", "u", "c", "t", "s", "/">>
HTTP == <<"h", "t", "t", "p">>
SLASH == <<"/">>

stop_words ==
    {<<"t", "h", "e">>,
     <<"a">>,
     <<"a", "n">>,
     <<"a", "n", "d">>,
     <<"o", "r">>,
     <<"b", "u", "t">>,
     <<"i", "n">>,
     <<"o", "n">>,
     <<"a", "t">>,
     <<"t", "o">>,
     <<"f", "o", "r">>,
     <<"o", "f">>,
     <<"w", "i", "t", "h">>,
     <<"b", "y">>}

stop_words_candidates ==
    stop_words \cup {<<"m", "l">>, <<"f", "l">>, <<"o", "z">>}

API_BASE == <<"h", "t", "t", "p", "s", ":", "/", "/", "c", "o", "m", "m", "e", "r", "c", "e", ".", "z", "o", "h", "o", ".", "c", "o", "m", "/", "s", "t", "o", "r", "e", "f", "r", "o", "n", "t", "/", "a", "p", "i", "/", "v", "1", "/">>
API_PRODUCTS == API_BASE \o <<"p", "r", "o", "d", "u", "c", "t", "s">>
API_SEARCH == API_BASE \o <<"s", "e", "a", "r", "c", "h", "-", "p", "r", "o", "d", "u", "c", "t", "s", "?", "q", "=">>
ALL == <<"a", "l", "l">>
PRODUCT_URL == STORE_ORIGIN \o PRODUCTS_PATH

\* zoho_products[:10] of find_product_candidates
TopCandidates == 10

skip_phrases ==
    {<<"s", "i", "g", "n", " ", "i", "n">>,
     <<"s", "i", "g", "n", " ", "u", "p">>,
     <<"m", "y", " ", "p", "r", "o", "f", "i", "l", "e">>,
     <<"m", "y", " ", "o", "r", "d", "e", "r", "s">>,
     <<"c", "o", "n", "t", "a", "c", "t", " ", "u", "s">>,
     <<"h", "e", "l", "p">>,
     <<"s", "e", "a", "r", "c", "h">>,
     <<"h", "o", "m", "e">>,
     <<"a", "b", "o", "u", "t">>,
     <<"t", "e", "r", "m", "s">>,
     <<"p", "r", "i", "v", "a", "c", "y">>,
     <<"s", "h", "i", "p", "p", "i", "n", "g">>,
     <<"c", "a", "r", "e", "e", "r">>,
     <<"r", "e", "f", "u", "n", "d">>,
     <<"r", "e", "t", "u", "r", "n">>,
     <<"d", "e", "l", "i", "v", "e", "r", "i", "e", "s">>,
     <<"i", "n", "f", "o", "r", "m", "a", "t", "i", "o", "n">>,
     <<"s", "t", "o", "r", "e", " ", "l", "o", "c", "a", "t", "i", "o", "n", "s">>,
     <<"o", "r", "d", "e", "r", " ", "d", "e", "t", "a", "i", "l", "s">>}

\* --------------------------------------------------------- search terms
\* key_terms without the test of the length
key_terms_KeepsShort(product_name) ==
    SelectSeq(split(lower(product_name)), LAMBDA term : term \notin stop_words)

\* key_terms without .lower()
key_terms_NoLower(product_name) ==
    SelectSeq(split(product_name),
              LAMBDA term : term \notin stop_words /\ Len(term) > 2)

\* key_terms of find_product_url: lower-cased words that are no stop-word
\* and are longer than 2 characters
key_terms(product_name) ==
    SelectSeq(split(lower(product_name)),
              LAMBDA term : term \notin stop_words /\ Len(term) > 2)

\* search_terms with the full name tried first instead of last
search_terms_FullNameFirst(product_name) ==
    LET kt == key_terms(product_name)
    IN  <<replace(product_name, " ", "+")>>
        \o Take(kt, 3)
        \o (IF Len(kt) >= 2 THEN <<kt[1] \o <<"+">> \o kt[2]>> ELSE <<>>)

\* search_terms with the individual terms taken from the second key term on
search_terms_SkipsFirst(product_name) ==
    LET kt == key_terms(product_name)
    IN  (IF kt = <<>> THEN <<>> ELSE Take(Tail(kt), 3))
        \o (IF Len(kt) >= 2 THEN <<kt[1] \o <<"+">> \o kt[2]>> ELSE <<>>)
        \o <<replace(product_name, " ", "+")>>

\* search_terms with every key term tried on its own
search_terms_NoLimit(product_name) ==
    LET kt == key_terms(product_name)
    IN  kt
        \o (IF Len(kt) >= 2 THEN <<kt[1] \o <<"+">> \o kt[2]>> ELSE <<>>)
        \o <<replace(product_name, " ", "+")>>

\* search_terms of find_product_url: the first three key terms, the
\* combination of the first two, the full name with ' ' replaced by '+'
search_terms(product_name) ==
    LET kt == key_terms(product_name)
    IN  Take(kt, 3)
        \o (IF Len(kt) >= 2 THEN <<kt[1] \o <<"+">> \o kt[2]>> ELSE <<>>)
        \o <<replace(product_name, " ", "+")>>

\* search_url of find_product_url
search_url(search_term) == SEARCH_URL \o search_term

\* ------------------------------------------------ storefront search page
\* An anchor of the page: [href, text]; text is get_text() before strip.
\* full_url without the final else branch: such an href is left as it is
full_url_NoElse(href) ==
    IF startswith(href, SLASH) THEN STORE_ORIGIN \o href ELSE href

\* full_url with a path from the root left as it is
full_url_RelativeKept(href) ==
    IF startswith(href, SLASH) THEN href
    ELSE IF startswith(href, HTTP) THEN href
    ELSE STORE_ORIGIN \o SLASH \o href

\* full_url of get_search_results
full_url(href) ==
    IF startswith(href, SLASH) THEN STORE_ORIGIN \o href
    ELSE IF startswith(href, HTTP) THEN href
    ELSE STORE_ORIGIN \o SLASH \o href

\* soup.find_all('a', href=lambda x: x and '/products/' in x)
IsProductLink(a) == a.href # <<>> /\ contains(PRODUCTS_PATH, a.href)

\* the two `continue` tests of the loop over product links
SkipsLink(text) ==
    \/ text = <<>>
    \/ Len(text) < 3
    \/ \E skip \in skip_phrases : contains(skip, lower(text))

RECURSIVE ExtractProducts(_)
ExtractProducts(anchors) ==
    IF anchors = <<>> THEN <<>>
    ELSE LET a == Head(anchors)
             text == strip(a.text)
         IN  (IF IsProductLink(a) /\ ~SkipsLink(text)
              THEN <<[name |-> text, url |-> full_url(a.href)]>>
              ELSE <<>>)
             \o ExtractProducts(Tail(anchors))

\* "Remove duplicates": keep the first product of each name
RECURSIVE Unique(_, _)
Unique(products, seen) ==
    IF products = <<>> THEN <<>>
    ELSE IF Head(products).name \in seen
         THEN Unique(Tail(products), seen)
         ELSE <<Head(products)>>
              \o Unique(Tail(products), seen \cup {Head(products).name})

\* A called function either returns (exc = FALSE, ret its value) or lets an
\* exception escape (exc = TRUE).
Return(value) == [exc |-> FALSE, ret |-> value]
Raise == [exc |-> TRUE, ret |-> <<>>]

\* the try block of get_search_results on one upstream outcome: requests.get
\* raises, or answers with a status and a page of anchors
SearchResultsTry(outcome) ==
    IF outcome.kind = "raise" THEN Raise
    ELSE IF outcome.status # 200 THEN Return(<<>>)
    ELSE Return(Unique(ExtractProducts(outcome.page), {}))

\* get_search_results without its except clause
get_search_results_NoExcept(outcome) == SearchResultsTry(outcome)

\* get_search_results: `except Exception` returns []
get_search_results(outcome) ==
    LET r == SearchResultsTry(outcome)
    IN  IF r.exc THEN Return(<<>>) ELSE r

\* -------------------------------------------------------- Python values
\* A JSON/Python value: t its type, v its number (bool: 0/1), s its text.
PyNone == [t |-> "null", v |-> 0, s |-> <<>>]
Absent == [t |-> "absent", v |-> 0, s |-> <<>>]
PyInt(n) == [t |-> "int", v |-> n, s |-> <<>>]
PyBool(b) == [t |-> "bool", v |-> IF b THEN 1 ELSE 0, s |-> <<>>]
PyFloat(n) == [t |-> "float", v |-> n, s |-> <<>>]
PyStr(str) == [t |-> "str", v |-> 0, s |-> str]

\* bool(x)
Truthy(x) ==
    CASE x.t = "null" -> FALSE
      [] x.t \in {"bool", "int", "float"} -> x.v # 0
      [] x.t = "str" -> x.s # <<>>
      [] OTHER -> FALSE

\* dict.get(key): None when the key is absent
Get(value) == IF value.t = "absent" THEN PyNone ELSE value

\* ------------------------------------------------- the model's reply text
\* The text of a model reply is a sequence of tokens: "{", "}", "txt" (any
\* run of characters without braces that is no JSON) and "members" (the
\* members of one JSON object, obj holding their parsed values).
NoMembers ==
    [match_found |-> Absent, best_match_number |-> Absent,
     identified_item |-> Absent]
Open == [tok |-> "{", obj |-> NoMembers]
Close == [tok |-> "}", obj |-> NoMembers]
Txt == [tok |-> "txt", obj |-> NoMembers]
Members(obj) == [tok |-> "members", obj |-> obj]

\* re.search(r'\{.*\}', text, re.DOTALL).group(): from the first "{" that
\* has a "}" after it to the last "}" (greedy); <<>> when there is no match
re_search(text) ==
    LET opens == {i \in 1..Len(text) : text[i].tok = "{"}
        closes == {j \in 1..Len(text) : text[j].tok = "}"}
    IN  IF opens = {} \/ closes = {} THEN <<>>
        ELSE LET first == CHOOSE i \in opens : \A k \in opens : i <= k
                 last == CHOOSE j \in closes : \A k \in closes : k <= j
             IN  IF first < last THEN SubSeq(text, first, last) ELSE <<>>

\* json.loads on a matched substring: an object is "{" "}" or
\* "{" members "}"; anything else raises JSONDecodeError
json_loads(m) ==
    IF Len(m) = 2 /\ m[1].tok = "{" /\ m[2].tok = "}" THEN Return(NoMembers)
    ELSE IF Len(m) = 3 /\ m[1].tok = "{" /\ m[2].tok = "members" /\ m[3].tok = "}"
         THEN Return(m[2].obj)
         ELSE Raise

\* ------------------------------------------------------ candidate matcher
\* get_openai_client raises ValueError when OPENAI_API_KEY is not set
ClientAvailable(key_set) == key_set

\* lines 461-466 with best_match_number used as a 0-based index
SelectMatch_ZeroBased(result, product_list) ==
    LET found == Get(result.match_found)
        number == Get(result.best_match_number)
    IN  IF ~(Truthy(found) /\ Truthy(number)) THEN Return(<<>>)
        ELSE IF number.t \notin {"bool", "int", "float"} THEN Raise
        ELSE LET match_index == number.v
             IN  IF 0 <= match_index /\ match_index < Len(product_list)
                 THEN IF number.t = "float" THEN Raise
                      ELSE Return(<<product_list[match_index + 1]>>)
                 ELSE Return(<<>>)

\* lines 461-466: the declared match, None (<<>>) or a TypeError
SelectMatch(result, product_list) ==
    LET found == Get(result.match_found)
        number == Get(result.best_match_number)
    IN  IF ~(Truthy(found) /\ Truthy(number)) THEN Return(<<>>)
        ELSE IF number.t \notin {"bool", "int", "float"} THEN Raise
        ELSE LET match_index == number.v - 1
             IN  IF 0 <= match_index /\ match_index < Len(product_list)
                 THEN IF number.t = "float" THEN Raise
                      ELSE Return(<<product_list[match_index + 1]>>)
                 ELSE Return(<<>>)

\* the try block of analyze_products_with_ai on one ranking outcome
AnalyzeTry(product_list, key_set, outcome) ==
    IF ~ClientAvailable(key_set) THEN Raise
    ELSE IF outcome.kind = "raise" THEN Raise
    ELSE LET json_match == re_search(outcome.text)
         IN  IF json_match = <<>> THEN Return(<<>>)
             ELSE LET parsed == json_loads(json_match)
                  IN  IF parsed.exc THEN Raise
                      ELSE SelectMatch(parsed.ret, product_list)

\* analyze_products_with_ai: `except Exception` returns None
analyze_products_with_ai(product_list, key_set, outcome) ==
    LET r == AnalyzeTry(product_list, key_set, outcome)
    IN  IF r.exc THEN Return(<<>>) ELSE r

\* --------------------------------------------- storefront client (variant)
\* search_terms of find_product_candidates (app_candidates.py): the words
\* of the name that are no stop-word and are longer than 2 characters
candidate_terms(product_name) ==
    SelectSeq(split(lower(product_name)),
              LAMBDA word : word \notin stop_words_candidates /\ Len(word) > 2)

RECURSIVE SearchUrls(_)
SearchUrls(search_terms_) ==
    IF search_terms_ = <<>> THEN <<>>
    ELSE (IF Len(Head(search_terms_)) > 2
          THEN <<API_SEARCH \o Head(search_terms_)>> ELSE <<>>)
         \o SearchUrls(Tail(search_terms_))

\* api_urls of get_zoho_commerce_products: the product listing, one search
\* per term longer than 2 characters, and the 'all' search
api_urls(search_terms_) ==
    <<API_PRODUCTS>> \o SearchUrls(search_terms_) \o <<API_SEARCH \o ALL>>

\* product_url of one upstream product (lines 83-94); a field that is
\* absent or empty is <<>>
product_url(product) ==
    LET from_url == product.url
        from_handle == IF from_url = <<>> THEN product.handle ELSE from_url
        from_id == IF from_handle = <<>> THEN PRODUCT_URL \o product.id
                   ELSE from_handle
    IN  IF startswith(from_id, SLASH) THEN STORE_ORIGIN \o from_id ELSE from_id

RECURSIVE NormalizeProducts(_)
NormalizeProducts(product_list) ==
    IF product_list = <<>> THEN <<>>
    ELSE <<[name |-> Head(product_list).name,
            id |-> Head(product_list).id,
            url |-> product_url(Head(product_list))]>>
         \o NormalizeProducts(Tail(product_list))

\* product_list of get_zoho_commerce_products (lines 77-79): each key of
\* data is [present, items]; payload stands for data['payload']['products']
ProductList(data) ==
    IF data.payload.present THEN data.payload.items
    ELSE IF data.products.present THEN data.products.items
    ELSE IF data.data.present THEN data.data.items
    ELSE <<>>

\* the inner try block of get_zoho_commerce_products on one upstream outcome:
\* it returns the products of a 200 answer, falls through to the next url
\* on another status (returns = FALSE), or raises
StorefrontTry(outcome) ==
    IF outcome.kind = "raise" THEN [exc |-> TRUE, returns |-> FALSE, ret |-> <<>>]
    ELSE IF outcome.status # 200 THEN [exc |-> FALSE, returns |-> FALSE, ret |-> <<>>]
    ELSE IF ~outcome.json THEN [exc |-> TRUE, returns |-> FALSE, ret |-> <<>>]
    ELSE [exc |-> FALSE, returns |-> TRUE,
          ret |-> NormalizeProducts(ProductList(outcome.data))]

\* one iteration of the loop over api_urls: `except Exception: continue`
StorefrontAttempt(outcome) ==
    LET r == StorefrontTry(outcome)
    IN  IF r.exc THEN [exc |-> FALSE, returns |-> FALSE, ret |-> <<>>] ELSE r

\* get_biolink_products of app_candidates.py on the client's result
get_biolink_products(zoho_products) ==
    IF zoho_products # <<>> THEN zoho_products ELSE <<>>

\* find_product_candidates returning the whole result of the client
TopOf_All(zoho_products) == zoho_products

\* lines 159-166 of find_product_candidates on the client's result
TopOf(zoho_products) ==
    IF zoho_products # <<>> THEN Take(zoho_products, TopCandidates) ELSE <<>>

\* ------------------------------------------------------------ vision step
NotFoundResult == [NoMembers EXCEPT !.identified_item = PyStr(NOT_FOUND)]

\* the try block of identify_lab_item with its inner try: the parsed JSON
\* object of the reply, or the "Not Found" result when the reply holds no
\* JSON (no match, or JSONDecodeError)
IdentifyTry(key_set, outcome) ==
    IF ~ClientAvailable(key_set) THEN Raise
    ELSE IF outcome.kind = "raise" THEN Raise
    ELSE LET json_match == re_search(outcome.text)
         IN  IF json_match = <<>> THEN Return(NotFoundResult)
             ELSE LET parsed == json_loads(json_match)
                  IN  IF parsed.exc THEN Return(NotFoundResult) ELSE parsed

\* identify_lab_item without its outer except clause
identify_lab_item_NoExcept(key_set, outcome) == IdentifyTry(key_set, outcome)

\* identify_lab_item: `except Exception` returns the "Not Found" result
identify_lab_item(key_set, outcome) ==
    LET r == IdentifyTry(key_set, outcome)
    IN  IF r.exc THEN Return(NotFoundResult) ELSE r

\* ------------------------------------------------------------------ state
VARIABLES
    pc,              \* "idle", "vision", "search", "rank", "ranked", "client", "done"
    flow,            \* what was called: "none", "upload", "find", "candidates"
    api_key,         \* whether OPENAI_API_KEY is set
    identification,  \* identification_result of upload_image
    product_name,    \* argument of find_product_url
    terms,           \* search_terms of find_product_url
    idx,             \* position of the loop over search_terms (1-based)
    product_links,   \* product_links of find_product_url
    best_match,      \* best_match of find_product_url: <<>> is None
    result,          \* what find_product_url returned: <<>> is None
    candidates,      \* what find_product_candidates returned
    response,        \* the HTTP response of /upload
    queries,         \* the catalog URLs requested so far, in order
    rank_calls,      \* the number of ranking calls issued so far
    last_rank,       \* the outcome of the latest ranking call
    failed,          \* whether an upstream attempt of this run has failed
    vision_calls,    \* the number of vision calls issued so far
    credentials,     \* the ZOHO_* environment read by get_zoho_commerce_products
    strategies,      \* the catalog strategies get_biolink_products has started
    zoho_products,   \* zoho_products of get_biolink_products (app.py)
    scraped_products, \* scraped_products of get_biolink_products (app.py)
    catalog,         \* what get_biolink_products (app.py) returned
    run,             \* 0, or the number of the run of a repeated call
    stub_pages,      \* the stubbed catalog responses, by query position
    stub_replies,    \* the stubbed ranking responses, by query position
    first            \* what the first run of a repeated call returned and requested

vars ==
    <<pc, flow, api_key, identification, product_name, terms, idx,
      product_links, best_match, result, candidates, response, queries, rank_calls,
      last_rank, failed, vision_calls, credentials, strategies, zoho_products,
      scraped_products, catalog, run, stub_pages, stub_replies, first>>

biolinkVars == <<credentials, strategies, zoho_products, scraped_products, catalog>>
replayVars == <<run, stub_pages, stub_replies, first>>

NoOutcome == [kind |-> "none", text |-> <<>>]
NoResponse ==
    [status |-> 0, error |-> "", success |-> FALSE,
     identification |-> NoMembers, product_url |-> <<>>,
     candidate_products |-> <<>>]

\* jsonify({'error': message}), status
ErrorResponse(status, message) ==
    [status |-> status, error |-> message, success |-> FALSE,
     identification |-> NoMembers, product_url |-> <<>>,
     candidate_products |-> <<>>]

\* jsonify(result) of upload_image, status 200
OkResponse(ident, url) ==
    [status |-> 200, error |-> "", success |-> TRUE,
     identification |-> ident, product_url |-> url,
     candidate_products |-> <<>>]

\* jsonify of the candidate variant's upload_image (no status given: 200);
\* the body has no 'success' and no 'product_url' key
CandidatesResponse(ident, candidate_products) ==
    [status |-> 200, error |-> "", success |-> FALSE,
     identification |-> ident, product_url |-> <<>>,
     candidate_products |-> candidate_products]

NoCredentials == [client_id |-> FALSE, client_secret |-> FALSE, access_token |-> FALSE]
NoList == [none |-> FALSE, items |-> <<>>]
NoFirst == [result |-> <<>>, queries |-> <<>>, rank_calls |-> 0]

Init ==
    /\ pc = "idle"
    /\ flow = "none"
    /\ api_key \in BOOLEAN
    /\ identification = NoMembers
    /\ product_name = PyNone
    /\ terms = <<>>
    /\ idx = 0
    /\ product_links = <<>>
    /\ best_match = <<>>
    /\ result = <<>>
    /\ candidates = <<>>
    /\ response = NoResponse
    /\ queries = <<>>
    /\ rank_calls = 0
    /\ last_rank = NoOutcome
    /\ failed = FALSE
    /\ vision_calls = 0
    /\ credentials = NoCredentials
    /\ strategies = <<>>
    /\ zoho_products = <<>>
    /\ scraped_products = NoList
    /\ catalog = <<>>
    /\ run = 0
    /\ stub_pages = <<>>
    /\ stub_replies = <<>>
    /\ first = NoFirst

\* ----------------------------------------------------------------- inputs
N_Empty == <<>>
N_StopOnly == <<"t", "h", "e", " ", "o", "f">>
N_Flask == <<"F", "l", "a", "s", "k">>
N_Cup == <<"C", "u", "p", " ", "5", "m", "l">>
N_Four == <<"B", "i", "g", " ", "R", "e", "d", " ", "C", "u", "p", " ", "L", "i", "d">>

\* the values an identified_item (or a product_name) takes
ItemValues ==
    {PyStr(NOT_FOUND), PyStr(N_Empty), PyStr(N_StopOnly), PyStr(N_Flask),
     PyStr(N_Cup), PyStr(N_Four), PyInt(5)}

H_Rel == <<"/", "p", "r", "o", "d", "u", "c", "t", "s", "/", "x">>
H_Rel2 == <<"/", "p", "r", "o", "d", "u", "c", "t", "s", "/", "w">>
H_Abs == <<"h", "t", "t", "p", ":", "/", "/", "s", ".", "o", "r", "g", "/", "p", "r", "o", "d", "u", "c", "t", "s", "/", "y">>
H_Bare == <<"c", "/", "p", "r", "o", "d", "u", "c", "t", "s", "/", "z">>
H_NoProd == <<"/", "a", "b", "o", "u", "t">>
T_Flask == <<"F", "l", "a", "s", "k">>
T_flask == <<"f", "l", "a", "s", "k">>
T_Cup == <<" ", "C", "u", "p", " ", "5", "m", "l", " ">>
T_Nav == <<"S", "i", "g", "n", " ", "I", "n">>
T_Short == <<"a", "b">>

\* the anchors a storefront page is made of
Anchors ==
    {[href |-> H_Rel, text |-> T_Flask],
     [href |-> H_Rel2, text |-> T_Flask],
     [href |-> H_Abs, text |-> T_Cup],
     [href |-> H_Bare, text |-> T_flask],
     [href |-> H_Rel, text |-> T_Nav],
     [href |-> H_Rel2, text |-> T_Short],
     [href |-> H_NoProd, text |-> T_Cup]}

SeqsUpTo(S, n) == UNION {[1..k -> S] : k \in 0..n}

\* what one catalog request does: raises (network error, timeout), or
\* answers with a status and a page
CatalogOutcomes ==
    {[kind |-> "raise", status |-> 0, page |-> <<>>],
     [kind |-> "response", status |-> 404, page |-> <<>>],
     [kind |-> "response", status |-> 500, page |-> <<>>]}
    \cup {[kind |-> "response", status |-> 200, page |-> p] :
            p \in SeqsUpTo(Anchors, MaxAnchors)}

CatalogFailed(outcome) == outcome.kind = "raise" \/ outcome.status # 200

\* the values a reply gives match_found and best_match_number
FoundValues == {Absent, PyBool(TRUE), PyBool(FALSE)}
NumberValues ==
    {Absent, PyNone, PyBool(TRUE), PyFloat(1), PyStr(<<"1">>)}
    \cup {PyInt(n) : n \in -1..MaxNum}

RankObjects ==
    {[NoMembers EXCEPT !.match_found = f, !.best_match_number = n] :
        f \in FoundValues, n \in NumberValues}

Match1 == [NoMembers EXCEPT !.match_found = PyBool(TRUE), !.best_match_number = PyInt(1)]
Match2 == [NoMembers EXCEPT !.match_found = PyBool(TRUE), !.best_match_number = PyInt(2)]

RankTexts ==
    {<<>>, <<Txt>>, <<Open>>, <<Close, Open>>, <<Open, Close>>,
     <<Open, Txt, Close>>,
     <<Open, Members(Match1), Close, Txt, Close>>,
     <<Open, Members(Match1), Close, Txt, Open, Members(Match2), Close>>}
    \cup {<<Open, Members(o), Close>> : o \in RankObjects}
    \cup {<<Txt, Open, Members(o), Close, Txt>> : o \in {Match1, Match2}}

\* what one ranking call does: raises, or replies with a text
RankOutcomes ==
    {[kind |-> "raise", text |-> <<>>]}
    \cup {[kind |-> "reply", text |-> t] : t \in RankTexts}

VisionObjects == {[NoMembers EXCEPT !.identified_item = v] : v \in ItemValues \cup {PyNone}}

VisionTexts ==
    {<<Txt>>, <<Open, Close>>, <<Open, Txt, Close>>}
    \cup {<<Open, Members(o), Close>> : o \in VisionObjects}
    \cup {<<Open, Members(o), Close, Txt, Close>> : o \in VisionObjects}

\* what the vision call does: raises, or replies with a text
VisionOutcomes ==
    {[kind |-> "raise", text |-> <<>>]}
    \cup {[kind |-> "reply", text |-> t] : t \in VisionTexts}

\* the shapes of an upstream product record: url absolute, url a path from
\* the root, url a path without the leading "/", a handle only, an id only
U_Abs == [name |-> T_Flask, url |-> H_Abs, handle |-> <<>>, id |-> <<"1">>]
U_Rel == [name |-> T_Flask, url |-> H_Rel, handle |-> <<>>, id |-> <<"2">>]
U_Bare == [name |-> T_flask, url |-> H_Bare, handle |-> <<>>, id |-> <<"3">>]
U_Handle == [name |-> T_Cup, url |-> <<>>, handle |-> <<"c", "u", "p", "-", "5", "m", "l">>, id |-> <<"4">>]
U_IdOnly == [name |-> T_Cup, url |-> <<>>, handle |-> <<>>, id |-> <<"5">>]
UpstreamProducts == {U_Abs, U_Rel, U_Bare, U_Handle, U_IdOnly}

NoKey == [present |-> FALSE, items |-> <<>>]
Key(items) == [present |-> TRUE, items |-> items]

\* the JSON bodies of a storefront answer
StorefrontData ==
    {[products |-> NoKey, data |-> NoKey, payload |-> NoKey]}
    \cup {[products |-> Key(l), data |-> NoKey, payload |-> NoKey] :
            l \in SeqsUpTo(UpstreamProducts, MaxProducts)}
    \cup {[products |-> NoKey, data |-> Key(l), payload |-> NoKey] :
            l \in SeqsUpTo(UpstreamProducts, 1)}
    \cup {[products |-> Key(<<U_Abs>>), data |-> Key(<<U_Rel>>), payload |-> Key(l)] :
            l \in SeqsUpTo(UpstreamProducts, 1)}

NoData == [products |-> NoKey, data |-> NoKey, payload |-> NoKey]

\* an upstream answer with more products than find_product_candidates
\* returns: LongLen records, the five shapes in turn
UpstreamShapes == <<U_Abs, U_Rel, U_Bare, U_Handle, U_IdOnly>>
LongItems == [i \in 1..LongLen |-> UpstreamShapes[((i - 1) % Len(UpstreamShapes)) + 1]]
LongData == [products |-> Key(LongItems), data |-> NoKey, payload |-> NoKey]

\* what one storefront request does: raises, or answers with a status and
\* a body that is JSON (json = TRUE) or not
StorefrontOutcomes ==
    {[kind |-> "raise", status |-> 0, json |-> FALSE, data |-> NoData],
     [kind |-> "response", status |-> 500, json |-> FALSE, data |-> NoData],
     [kind |-> "response", status |-> 200, json |-> FALSE, data |-> NoData]}
    \cup {[kind |-> "response", status |-> 200, json |-> TRUE, data |-> d] :
            d \in StorefrontData \cup {LongData}}

\* ---------------------------------------------------------------- actions
\* FindReturns with "no match" answered as a failure of the request
FindReturns_NoMatchIsError(caller, ident, url) ==
    /\ pc' = "done"
    /\ result' = url
    /\ response' = IF caller # "upload" THEN NoResponse
                   ELSE IF url = <<>> THEN ErrorResponse(500, "Failed to process image")
                   ELSE OkResponse(ident, url)

\* find_product_url returns url (<<>> is None); upload_image, when it is the
\* caller, answers with lines 509-516
FindReturns(caller, ident, url) ==
    /\ pc' = "done"
    /\ result' = url
    /\ response' = IF caller = "upload" THEN OkResponse(ident, url) ELSE NoResponse

\* EnterFind with search_terms kept in a list that outlives the call
EnterFind_SharedTerms(caller, ident, name) ==
    /\ product_name' = name
    /\ IF name = PyStr(NOT_FOUND) \/ name.t # "str"
       THEN /\ pc' = "done"
            /\ result' = <<>>
            /\ response' = IF caller = "upload" THEN OkResponse(ident, <<>>) ELSE NoResponse
            /\ terms' = terms
            /\ idx' = 0
       ELSE /\ terms' = terms \o search_terms(name.s)
            /\ idx' = 1
            /\ pc' = "search"
            /\ result' = <<>>
            /\ response' = NoResponse

\* EnterFind without the sentinel test of line 286
EnterFind_NoSentinel(caller, ident, name) ==
    /\ product_name' = name
    /\ IF name.t # "str"
       THEN /\ pc' = "done"
            /\ result' = <<>>
            /\ response' = IF caller = "upload" THEN OkResponse(ident, <<>>) ELSE NoResponse
            /\ terms' = <<>>
            /\ idx' = 0
       ELSE /\ terms' = search_terms(name.s)
            /\ idx' = 1
            /\ pc' = "search"
            /\ result' = <<>>
            /\ response' = NoResponse

\* find_product_url up to its loop (lines 286-311): the sentinel returns
\* None at once; a name that is no str fails in .lower() and the except
\* clause returns None
EnterFind(caller, ident, name) ==
    /\ product_name' = name
    /\ IF name = PyStr(NOT_FOUND) \/ name.t # "str"
       THEN /\ FindReturns(caller, ident, <<>>)
            /\ terms' = <<>>
            /\ idx' = 0
       ELSE /\ terms' = search_terms(name.s)
            /\ idx' = 1
            /\ pc' = "search"
            /\ result' = <<>>
            /\ response' = NoResponse

\* find_product_candidates(name) up to the first storefront request
\* (lines 142-159, and lines 39-49 of get_zoho_commerce_products): the
\* sentinel returns [] at once; a truthy name that is no str fails in
\* .lower() and the except clause returns []
EnterCandidates(name) ==
    /\ product_name' = name
    /\ IF name = PyStr(NOT_FOUND) \/ (name.t # "str" /\ Truthy(name))
       THEN pc' = "done" /\ terms' = <<>> /\ idx' = 0
       ELSE /\ terms' = IF Truthy(name) THEN candidate_terms(name.s) ELSE <<>>
            /\ idx' = 1
            /\ pc' = "client"

\* the loop moves to the next search term, or falls through to line 336
NextTerm ==
    IF idx < Len(terms)
    THEN /\ pc' = "search"
         /\ idx' = idx + 1
         /\ UNCHANGED <<result, response>>
    ELSE /\ idx' = idx
         /\ FindReturns(flow, identification, <<>>)

\* the answer of the except clause of upload_image
UploadFailure_Escapes == ErrorResponse(500, "Internal Server Error")

UploadFailure == ErrorResponse(500, "Failed to process image")

\* UploadImage without the test of the filename
UploadImage_NoFilenameCheck(has_image, filename_empty) ==
    /\ pc = "idle"
    /\ flow' = "upload"
    /\ IF ~has_image
       THEN pc' = "done" /\ response' = ErrorResponse(400, "No image file provided")
       ELSE IF ~api_key
       THEN pc' = "done" /\ response' = ErrorResponse(500, "AI service not configured")
       ELSE pc' = "vision" /\ response' = NoResponse
    /\ UNCHANGED <<api_key, identification, product_name, terms, idx,
                   product_links, best_match, result, queries, rank_calls,
                   last_rank, failed, candidates, vision_calls, biolinkVars>>

\* POST /upload up to the vision call (lines 483-498)
UploadImage(has_image, filename_empty) ==
    /\ pc = "idle"
    /\ flow' = "upload"
    /\ IF ~has_image
       THEN pc' = "done" /\ response' = ErrorResponse(400, "No image file provided")
       ELSE IF filename_empty
       THEN pc' = "done" /\ response' = ErrorResponse(400, "No image file selected")
       ELSE IF ~api_key
       THEN pc' = "done" /\ response' = ErrorResponse(500, "AI service not configured")
       ELSE pc' = "vision" /\ response' = NoResponse
    /\ UNCHANGED <<api_key, identification, product_name, terms, idx,
                   product_links, best_match, result, queries, rank_calls,
                   last_rank, failed, candidates, vision_calls, biolinkVars>>

\* POST /upload of the candidate variant up to the vision call (lines
\* 294-318): without the key the handler answers 200 with a "Not Found"
\* identification and no candidates
UploadImageCandidates(has_image, filename_empty) ==
    /\ pc = "idle"
    /\ flow' = "upload_candidates"
    /\ IF ~has_image
       THEN pc' = "done" /\ response' = ErrorResponse(400, "No image file provided")
       ELSE IF filename_empty
       THEN pc' = "done" /\ response' = ErrorResponse(400, "No image file selected")
       ELSE IF ~api_key
       THEN pc' = "done" /\ response' = CandidatesResponse(NotFoundResult, <<>>)
       ELSE pc' = "vision" /\ response' = NoResponse
    /\ UNCHANGED <<api_key, identification, product_name, terms, idx,
                   product_links, best_match, result, queries, rank_calls,
                   last_rank, failed, candidates, vision_calls, biolinkVars>>

\* upload_image from the vision call on (lines 501-520, and lines 321-334 of
\* the candidate variant, whose flow is "upload_candidates"): a missing
\* identified_item is a KeyError, answered by the except clause
Identify(outcome) ==
    /\ pc = "vision"
    /\ vision_calls' = IF ClientAvailable(api_key) THEN vision_calls + 1 ELSE vision_calls
    /\ LET r == identify_lab_item(api_key, outcome)
           ident == r.ret
       IN  IF r.exc \/ ident.identified_item.t = "absent"
           THEN /\ pc' = "done"
                /\ response' = UploadFailure
                /\ identification' = IF r.exc THEN NoMembers ELSE ident
                /\ UNCHANGED <<product_name, terms, idx, result>>
           ELSE /\ identification' = ident
                /\ IF flow = "upload_candidates"
                   THEN /\ EnterCandidates(ident.identified_item)
                        /\ response' = IF pc' = "done"
                                       THEN CandidatesResponse(ident, <<>>)
                                       ELSE NoResponse
                        /\ UNCHANGED result
                   ELSE IF ident.identified_item # PyStr(NOT_FOUND)
                   THEN EnterFind("upload", ident, ident.identified_item)
                   ELSE /\ pc' = "done"
                        /\ response' = OkResponse(ident, <<>>)
                        /\ UNCHANGED <<product_name, terms, idx, result>>
    /\ UNCHANGED <<flow, api_key, product_links, best_match, queries,
                   rank_calls, last_rank, failed, candidates, biolinkVars>>

\* a direct call of find_product_url(name)
CallFindProductUrl(name) ==
    /\ pc = "idle"
    /\ flow' = "find"
    /\ EnterFind("find", NoMembers, name)
    /\ UNCHANGED <<api_key, identification, product_links, best_match,
                   queries, rank_calls, last_rank, failed, candidates,
                   vision_calls, biolinkVars>>

\* Search without the test of line 325: the matcher is called whatever the
\* catalog query returned
Search_RanksEmpty(outcome) ==
    /\ pc = "search"
    /\ queries' = Append(queries, search_url(terms[idx]))
    /\ failed' = (failed \/ CatalogFailed(outcome))
    /\ LET r == get_search_results(outcome)
       IN  IF r.exc
           THEN /\ FindReturns(flow, identification, <<>>)
                /\ UNCHANGED <<idx, product_links>>
           ELSE /\ product_links' = r.ret
                /\ pc' = "rank"
                /\ UNCHANGED <<idx, result, response>>
    /\ UNCHANGED <<flow, api_key, identification, product_name, terms,
                   best_match, rank_calls, last_rank, candidates,
                   vision_calls, biolinkVars>>

\* one iteration of the loop up to the matcher (lines 314-325): an
\* exception escaping get_search_results would end in the except clause
Search(outcome) ==
    /\ pc = "search"
    /\ queries' = Append(queries, search_url(terms[idx]))
    /\ failed' = (failed \/ CatalogFailed(outcome))
    /\ LET r == get_search_results(outcome)
       IN  IF r.exc
           THEN /\ FindReturns(flow, identification, <<>>)
                /\ UNCHANGED <<idx, product_links>>
           ELSE /\ product_links' = r.ret
                /\ IF r.ret = <<>>
                   THEN NextTerm
                   ELSE pc' = "rank" /\ UNCHANGED <<idx, result, response>>
    /\ UNCHANGED <<flow, api_key, identification, product_name, terms,
                   best_match, rank_calls, last_rank, candidates,
                   vision_calls, biolinkVars>>

\* the matcher call of line 328; the ranking call is issued only when
\* get_openai_client returned a client
Rank(outcome) ==
    /\ pc = "rank"
    /\ rank_calls' = IF ClientAvailable(api_key) THEN rank_calls + 1 ELSE rank_calls
    /\ last_rank' = outcome
    /\ failed' = (failed \/ outcome.kind = "raise")
    /\ LET r == analyze_products_with_ai(product_links, api_key, outcome)
       IN  IF r.exc
           THEN /\ FindReturns(flow, identification, <<>>)
                /\ UNCHANGED best_match
           ELSE /\ best_match' = r.ret
                /\ pc' = "ranked"
                /\ UNCHANGED <<result, response>>
    /\ UNCHANGED <<flow, api_key, identification, product_name, terms, idx,
                   product_links, queries, candidates, vision_calls, biolinkVars>>

\* Decide with the loop going on after a match
Decide_KeepsSearching ==
    /\ pc = "ranked"
    /\ IF best_match # <<>> /\ idx < Len(terms)
       THEN /\ pc' = "search"
            /\ idx' = idx + 1
            /\ result' = <<best_match[1].url>>
            /\ UNCHANGED <<response, product_links, best_match, last_rank>>
       ELSE IF best_match # <<>>
       THEN /\ FindReturns(flow, identification, <<best_match[1].url>>)
            /\ UNCHANGED <<idx, product_links, best_match, last_rank>>
       ELSE /\ NextTerm
            /\ product_links' = <<>>
            /\ best_match' = <<>>
            /\ last_rank' = NoOutcome
    /\ UNCHANGED <<flow, api_key, identification, product_name, terms,
                   queries, rank_calls, failed, candidates, vision_calls,
                   biolinkVars>>

\* lines 330-332: a match ends the run with its url, no match continues
\* (the locals of the finished iteration are dead and are cleared)
Decide ==
    /\ pc = "ranked"
    /\ IF best_match # <<>>
       THEN /\ FindReturns(flow, identification, <<best_match[1].url>>)
            /\ UNCHANGED <<idx, product_links, best_match, last_rank>>
       ELSE /\ NextTerm
            /\ product_links' = <<>>
            /\ best_match' = <<>>
            /\ last_rank' = NoOutcome
    /\ UNCHANGED <<flow, api_key, identification, product_name, terms,
                   queries, rank_calls, failed, candidates, vision_calls,
                   biolinkVars>>

\* a direct call of find_product_candidates(name)
CallFindProductCandidates(name) ==
    /\ pc = "idle"
    /\ flow' = "candidates"
    /\ EnterCandidates(name)
    /\ candidates' = <<>>
    /\ UNCHANGED <<api_key, identification, product_links, best_match, result,
                   response, queries, rank_calls, last_rank, failed,
                   vision_calls, biolinkVars>>

\* one iteration of the loop over api_urls (lines 57-115), and, when the
\* loop ends, the returns of get_zoho_commerce_products,
\* get_biolink_products and find_product_candidates; upload_image, when it
\* is the caller, answers with lines 326-330
ClientTry(outcome) ==
    /\ pc = "client"
    /\ queries' = Append(queries, api_urls(terms)[idx])
    /\ failed' = (failed \/ outcome.kind = "raise" \/ outcome.status # 200 \/ ~outcome.json)
    /\ LET r == StorefrontAttempt(outcome)
       IN  IF r.returns
           THEN /\ pc' = "done"
                /\ candidates' = TopOf(get_biolink_products(r.ret))
                /\ idx' = idx
           ELSE IF idx < Len(api_urls(terms))
           THEN /\ pc' = "client"
                /\ idx' = idx + 1
                /\ candidates' = <<>>
           ELSE /\ pc' = "done"
                /\ candidates' = TopOf(get_biolink_products(<<>>))
                /\ idx' = idx
    /\ response' = IF flow = "upload_candidates" /\ pc' = "done"
                   THEN CandidatesResponse(identification, candidates')
                   ELSE response
    /\ UNCHANGED <<flow, api_key, identification, product_name, terms,
                   product_links, best_match, result, rank_calls,
                   last_rank, vision_calls, biolinkVars>>

\* --------------------------------------- the catalog strategies of app.py
ZOHO_API_URL == <<"Z", "O", "H", "O">>
SCRAPE_URL == STORE_ORIGIN \o SLASH
PRICE_NOT_FOUND == <<"P", "N", "F">>
keywords ==
    {<<"f", "l", "a", "s", "k">>,
     <<"b", "o", "t", "t", "l", "e">>,
     <<"t", "u", "b", "e">>,
     <<"p", "l", "a", "t", "e">>,
     <<"f", "i", "l", "t", "e", "r">>,
     <<"r", "e", "d", " ", "b", "u", "l", "l">>,
     <<"r", "e", "d", "b", "u", "l", "l">>}

\* a Python value that is a list or None
PyList(items) == [none |-> FALSE, items |-> items]
NoneValue == [none |-> TRUE, items |-> <<>>]
TruthyList(x) == ~x.none /\ x.items # <<>>

\* the credentials test with the access token alone
CredentialsConfigured_TokenOnly(c) == c.access_token

\* all([client_id, client_secret, access_token]) of line 38
CredentialsConfigured(c) == c.client_id /\ c.client_secret /\ c.access_token

\* the records built from data.get('products', []) (lines 56-63); an
\* upstream price of <<>> stands for a record without 'price'
RECURSIVE ZohoRecords(_)
ZohoRecords(product_list) ==
    IF product_list = <<>> THEN <<>>
    ELSE <<[name |-> Head(product_list).name,
            id |-> Head(product_list).id,
            price |-> <<"$">> \o (IF Head(product_list).price = <<>> THEN <<"0">>
                                  ELSE Head(product_list).price)]>>
         \o ZohoRecords(Tail(product_list))

\* the try block of get_zoho_commerce_products (lines 31-70): without the
\* credentials it returns [] before any request
ZohoTry(creds, outcome) ==
    IF ~CredentialsConfigured(creds) THEN Return(<<>>)
    ELSE IF outcome.kind = "raise" THEN Raise
    ELSE IF outcome.status = 200
    THEN IF ~outcome.json THEN Raise
         ELSE Return(ZohoRecords(IF outcome.data.present THEN outcome.data.items
                                 ELSE <<>>))
    ELSE Return(<<>>)

get_zoho_commerce_products(creds, outcome) ==
    LET r == ZohoTry(creds, outcome)
    IN  IF r.exc THEN Return(<<>>) ELSE r

remove(str, c) == SelectSeq(str, LAMBDA x : x # c)

\* "Generate ID" (line 130)
product_id(text) ==
    replace(remove(remove(replace(lower(text), " ", "-"), ","), "\""), "²", "2")

\* the loop over the elements the selectors found (lines 107-137); an
\* element is its text and the text of the price element next to it (<<>>
\* when there is none)
RECURSIVE ScrapeElements(_)
ScrapeElements(elements) ==
    IF elements = <<>> THEN <<>>
    ELSE LET text == strip(Head(elements).text)
             rest == ScrapeElements(Tail(elements))
         IN  IF /\ text # <<>>
                /\ Len(text) > 3
                /\ Len(text) < 200
                /\ \E keyword \in keywords : contains(keyword, lower(text))
             THEN <<[name |-> text,
                     id |-> product_id(text),
                     price |-> IF Head(elements).price = <<>> THEN PRICE_NOT_FOUND
                               ELSE strip(Head(elements).price)]>> \o rest
             ELSE rest

\* the try block of scrape_biolink_products (lines 81-152): a status other
\* than 200 falls off the end of the function, which returns None
ScrapeTry(outcome) ==
    IF outcome.kind = "raise" THEN Raise
    ELSE IF outcome.status = 200
    THEN Return(PyList(Unique(ScrapeElements(outcome.elements), {})))
    ELSE Return(NoneValue)

scrape_biolink_products(outcome) ==
    LET r == ScrapeTry(outcome)
    IN  IF r.exc THEN Return(PyList(<<>>)) ELSE r

\* NextStrategy with the scrape tried whatever the first strategy returned
NextStrategy_AlwaysScrapes(products) == "scrape"

\* lines 164-167 of get_biolink_products: products of the first strategy
\* are returned at once
NextStrategy(products) == IF products # <<>> THEN "done" ELSE "scrape"

\* get_biolink_products returning what the first strategy returned
biolink_products_ScrapeIgnored(zoho, scraped) == zoho

\* what get_biolink_products of app.py returns (lines 163-178)
biolink_products(zoho, scraped) ==
    IF zoho # <<>> THEN zoho
    ELSE IF TruthyList(scraped) THEN scraped.items
    ELSE <<>>

\* the upstream records of the commerce API
Z_Flask == [name |-> T_Flask, id |-> <<"1">>, price |-> <<"9">>]
Z_Cup == [name |-> T_Cup, id |-> <<"2">>, price |-> <<>>]
ZohoOutcomes ==
    {[kind |-> "raise", status |-> 0, json |-> FALSE, data |-> NoData],
     [kind |-> "response", status |-> 401, json |-> FALSE, data |-> NoData],
     [kind |-> "response", status |-> 200, json |-> FALSE, data |-> NoData],
     [kind |-> "response", status |-> 200, json |-> TRUE, data |-> NoKey]}
    \cup {[kind |-> "response", status |-> 200, json |-> TRUE, data |-> Key(items)] :
            items \in SeqsUpTo({Z_Flask, Z_Cup}, MaxProducts)}

\* the elements of the scraped page
T_Tube == <<" ", "T", "u", "b", "e", ",", " ", "2", "m", "l">>
T_Price == <<"$", "5">>
Elements ==
    {[text |-> T_Flask, price |-> T_Price],
     [text |-> T_Flask, price |-> <<>>],
     [text |-> T_Cup, price |-> <<>>],
     [text |-> T_Tube, price |-> <<>>]}
ScrapeOutcomes ==
    {[kind |-> "raise", status |-> 0, elements |-> <<>>],
     [kind |-> "response", status |-> 503, elements |-> <<>>]}
    \cup {[kind |-> "response", status |-> 200, elements |-> e] :
            e \in SeqsUpTo(Elements, MaxElements)}

\* get_biolink_products() up to the first request: the credentials are read
\* from the environment; without them the first strategy returns [] and the
\* scrape is next
CallGetBiolinkProducts(client_id, client_secret, access_token) ==
    /\ pc = "idle"
    /\ flow' = "biolink"
    /\ credentials' = [client_id |-> client_id, client_secret |-> client_secret,
                       access_token |-> access_token]
    /\ zoho_products' = <<>>
    /\ IF CredentialsConfigured(credentials')
       THEN pc' = "zoho" /\ strategies' = <<"zoho">>
       ELSE pc' = "scrape" /\ strategies' = <<"zoho", "scrape">>
    /\ UNCHANGED <<api_key, identification, product_name, terms, idx,
                   product_links, best_match, result, candidates, response,
                   queries, rank_calls, last_rank, failed, vision_calls,
                   scraped_products, catalog>>

\* the request of get_zoho_commerce_products (line 50) and what
\* get_biolink_products does with its result
ZohoRequest(outcome) ==
    /\ pc = "zoho"
    /\ queries' = Append(queries, ZOHO_API_URL)
    /\ zoho_products' = get_zoho_commerce_products(credentials, outcome).ret
    /\ pc' = NextStrategy(zoho_products')
    /\ IF pc' = "done"
       THEN catalog' = zoho_products' /\ UNCHANGED strategies
       ELSE strategies' = Append(strategies, "scrape") /\ UNCHANGED catalog
    /\ UNCHANGED <<flow, api_key, identification, product_name, terms, idx,
                   product_links, best_match, result, candidates, response,
                   rank_calls, last_rank, failed, vision_calls, credentials,
                   scraped_products>>

\* the request of scrape_biolink_products (line 89) and the return of
\* get_biolink_products
ScrapeRequest(outcome) ==
    /\ pc = "scrape"
    /\ queries' = Append(queries, SCRAPE_URL)
    /\ scraped_products' = scrape_biolink_products(outcome).ret
    /\ catalog' = biolink_products(zoho_products, scraped_products')
    /\ pc' = "done"
    /\ UNCHANGED <<flow, api_key, identification, product_name, terms, idx,
                   product_links, best_match, result, candidates, response,
                   rank_calls, last_rank, failed, vision_calls, credentials,
                   strategies, zoho_products>>

Next ==
    \/ \E has_image \in BOOLEAN, filename_empty \in BOOLEAN :
          UploadImage(has_image, filename_empty) /\ UNCHANGED replayVars
    \/ \E has_image \in BOOLEAN, filename_empty \in BOOLEAN :
          UploadImageCandidates(has_image, filename_empty) /\ UNCHANGED replayVars
    \/ \E outcome \in VisionOutcomes : Identify(outcome) /\ UNCHANGED replayVars
    \/ \E name \in ItemValues : CallFindProductUrl(name) /\ UNCHANGED replayVars
    \/ \E outcome \in CatalogOutcomes : Search(outcome) /\ UNCHANGED replayVars
    \/ \E outcome \in RankOutcomes : Rank(outcome) /\ UNCHANGED replayVars
    \/ Decide /\ UNCHANGED replayVars
    \/ \E name \in ItemValues : CallFindProductCandidates(name) /\ UNCHANGED replayVars
    \/ \E outcome \in StorefrontOutcomes : ClientTry(outcome) /\ UNCHANGED replayVars
    \/ \E client_id \in BOOLEAN, client_secret \in BOOLEAN, access_token \in BOOLEAN :
          CallGetBiolinkProducts(client_id, client_secret, access_token)
          /\ UNCHANGED replayVars
    \/ \E outcome \in ZohoOutcomes : ZohoRequest(outcome) /\ UNCHANGED replayVars
    \/ \E outcome \in ScrapeOutcomes : ScrapeRequest(outcome) /\ UNCHANGED replayVars

Spec == Init /\ [][Next]_vars

\* ------------------------------------------------- the term extractor alone
Words ==
    {<<"T", "h", "e">>,
     <<"o", "f">>,
     <<"a", "b">>,
     <<"C", "u", "p">>,
     <<"5", "m", "l">>,
     <<"o", "z">>,
     <<"F", "l", "a", "s", "k">>}

RECURSIVE Join(_)
Join(ws) ==
    IF ws = <<>> THEN <<>>
    ELSE IF Len(ws) = 1 THEN ws[1]
    ELSE ws[1] \o <<" ">> \o Join(Tail(ws))

\* the item names: up to MaxWords words with single spaces between them
TermNames == {Join(ws) : ws \in SeqsUpTo(Words, MaxWords)}

\* the key-term comprehension of find_product_url on name
ExtractKeyTerms(name) ==
    /\ pc = "idle"
    /\ flow' = "terms"
    /\ product_name' = PyStr(name)
    /\ terms' = key_terms(name)
    /\ pc' = "done"
    /\ UNCHANGED <<api_key, identification, idx, product_links, best_match,
                   result, candidates, response, queries, rank_calls, last_rank,
                   failed, vision_calls, biolinkVars, replayVars>>

\* the search-term comprehension of find_product_candidates on name
ExtractCandidateTerms(name) ==
    /\ pc = "idle"
    /\ flow' = "candidate_terms"
    /\ product_name' = PyStr(name)
    /\ terms' = candidate_terms(name)
    /\ pc' = "done"
    /\ UNCHANGED <<api_key, identification, idx, product_links, best_match,
                   result, candidates, response, queries, rank_calls, last_rank,
                   failed, vision_calls, biolinkVars, replayVars>>

NextTerms ==
    \/ \E name \in TermNames : ExtractKeyTerms(name)
    \/ \E name \in TermNames : ExtractCandidateTerms(name)

SpecTerms == Init /\ [][NextTerms]_vars

\* ------------------------------------- find_product_url called twice
\* the stubbed upstream: what a catalog request and a ranking call may do
ReplayPages ==
    {[kind |-> "raise", status |-> 0, page |-> <<>>],
     [kind |-> "response", status |-> 404, page |-> <<>>],
     [kind |-> "response", status |-> 200,
      page |-> <<[href |-> H_Rel, text |-> T_Flask], [href |-> H_Abs, text |-> T_Cup]>>]}

ReplayReplies ==
    {[kind |-> "raise", text |-> <<>>],
     [kind |-> "reply", text |-> <<Txt>>],
     [kind |-> "reply", text |-> <<Open, Members(Match2), Close>>]}

\* the names find_product_url is called with twice
ReplayNames == {PyStr(NOT_FOUND), PyStr(N_Flask), PyStr(N_Cup), PyInt(5)}

\* the first call of find_product_url(name)
FirstRun(name) ==
    /\ run = 0
    /\ run' = 1
    /\ CallFindProductUrl(name)
    /\ UNCHANGED <<stub_pages, stub_replies, first>>

\* a catalog request of the first run: the stub answers, and the answer is
\* recorded as the answer to the request at this position
SearchFirst(outcome) ==
    /\ run = 1
    /\ Search(outcome)
    /\ stub_pages' = Append(stub_pages, outcome)
    /\ stub_replies' = Append(stub_replies, NoOutcome)
    /\ UNCHANGED <<run, first>>

\* a ranking call of the first run
RankFirst(outcome) ==
    /\ run = 1
    /\ Rank(outcome)
    /\ stub_replies' = [stub_replies EXCEPT ![Len(queries)] = outcome]
    /\ UNCHANGED <<run, stub_pages, first>>

\* the second call of find_product_url with the same name: a new frame (its
\* locals are unbound) and a new record of the upstream calls
SecondRun ==
    /\ run = 1
    /\ pc = "done"
    /\ run' = 2
    /\ first' = [result |-> result, queries |-> queries, rank_calls |-> rank_calls]
    /\ EnterFind("find", NoMembers, product_name)
    /\ queries' = <<>>
    /\ rank_calls' = 0
    /\ failed' = FALSE
    /\ product_links' = <<>>
    /\ best_match' = <<>>
    /\ last_rank' = NoOutcome
    /\ UNCHANGED <<flow, api_key, identification, candidates, vision_calls,
                   biolinkVars, stub_pages, stub_replies>>

\* a catalog request of the second run: the stub gives the answer it gave
\* at this position (any answer, for a request the first run never made)
SearchSecond ==
    /\ run = 2
    /\ pc = "search"
    /\ \E outcome \in (IF Len(queries) < Len(stub_pages)
                        THEN {stub_pages[Len(queries) + 1]}
                        ELSE ReplayPages) : Search(outcome)
    /\ UNCHANGED replayVars

\* a ranking call of the second run
RankSecond ==
    /\ run = 2
    /\ pc = "rank"
    /\ \E outcome \in (IF /\ Len(queries) <= Len(stub_replies)
                           /\ stub_replies[Len(queries)] # NoOutcome
                        THEN {stub_replies[Len(queries)]}
                        ELSE ReplayReplies) : Rank(outcome)
    /\ UNCHANGED replayVars

NextTwice ==
    \/ \E name \in ReplayNames : FirstRun(name)
    \/ \E outcome \in ReplayPages : SearchFirst(outcome)
    \/ \E outcome \in ReplayReplies : RankFirst(outcome)
    \/ Decide /\ UNCHANGED replayVars
    \/ SecondRun
    \/ SearchSecond
    \/ RankSecond

SpecTwice == Init /\ [][NextTwice]_vars

\* ------------------------------------------- find_product_url run to its end
\* find_product_url alone against the stubbed upstream; every upstream call
\* returns or fails, so the run does not stay for ever before a request, a
\* ranking call or the rest of the loop body
NextFind ==
    \/ \E name \in ItemValues : CallFindProductUrl(name) /\ UNCHANGED replayVars
    \/ \E outcome \in ReplayPages : Search(outcome) /\ UNCHANGED replayVars
    \/ \E outcome \in ReplayReplies : Rank(outcome) /\ UNCHANGED replayVars
    \/ Decide /\ UNCHANGED replayVars

\* a pending catalog request comes to an end (here: by failing), a pending
\* ranking call comes to an end, the loop body goes on
SearchEnds == Search([kind |-> "raise", status |-> 0, page |-> <<>>]) /\ UNCHANGED replayVars
RankEnds == \E outcome \in ReplayReplies : Rank(outcome) /\ UNCHANGED replayVars
LoopGoesOn == Decide /\ UNCHANGED replayVars

SpecFind ==
    /\ Init
    /\ [][NextFind]_vars
    /\ WF_vars(SearchEnds)
    /\ WF_vars(RankEnds)
    /\ WF_vars(LoopGoesOn)

\* ------------------------------------------------------------------ claims
InFind == flow \in {"upload", "find"}
Min(a, b) == IF a < b THEN a ELSE b
IsHttpUrl(url) == url # <<>> /\ startswith(url, HTTP)

\* C1: when the identified item name is the sentinel "Not Found", the run
\* ends with no match (product_url null, or an empty candidate list) and no
\* catalog query and no ranking call is issued in that run.
C1_SentinelShortCircuits ==
    /\ (flow \in {"find", "candidates"} /\ product_name = PyStr(NOT_FOUND))
          => /\ pc = "done"
             /\ result = <<>>
             /\ candidates = <<>>
             /\ queries = <<>>
             /\ rank_calls = 0
    /\ (flow = "upload" /\ identification.identified_item = PyStr(NOT_FOUND))
          => /\ pc = "done"
             /\ response.product_url = <<>>
             /\ queries = <<>>
             /\ rank_calls = 0

C1_Witness ==
    /\ pc = "done"
    /\ flow = "find"
    /\ product_name = PyStr(NOT_FOUND)
    /\ result = <<>>

\* C2: when term extraction yields an empty list for a name, the
\* orchestrator returns no match without issuing any catalog query.
C2_EmptyTermsNoQuery ==
    /\ (InFind /\ product_name.t = "str" /\ key_terms(product_name.s) = <<>>)
          => queries = <<>>
    /\ (flow = "candidates" /\ product_name.t = "str"
          /\ candidate_terms(product_name.s) = <<>>)
          => queries = <<>>

\* C3: find_product_url processes its search queries in list order, runs
\* the matcher only on a non-empty result list, and on the first match
\* returns that product's url with no further query or ranking call.
C3_InOrderFirstMatchWins ==
    InFind =>
        /\ Len(queries) <= Len(terms)
        /\ \A i \in 1..Len(queries) : queries[i] = search_url(terms[i])
        /\ pc \in {"rank", "ranked"} => product_links # <<>> /\ Len(queries) = idx
        /\ result # <<>> =>
              /\ pc = "done"
              /\ best_match # <<>>
              /\ \E n \in 1..Len(product_links) : best_match[1] = product_links[n]
              /\ result = <<best_match[1].url>>
              /\ Len(queries) = idx
        /\ rank_calls <= Len(queries)

C3_Witness ==
    /\ pc = "done"
    /\ flow = "find"
    /\ result # <<>>
    /\ Len(queries) = 2
    /\ Len(terms) = 5
    /\ rank_calls = 2

\* C4: a non-null result of find_product_url, and a non-null product_url of
\* the /upload response, is a non-empty absolute URL beginning with "http".
C4_ResultIsAbsoluteUrl ==
    /\ result # <<>> => IsHttpUrl(result[1])
    /\ response.product_url # <<>> => IsHttpUrl(response.product_url[1])
    /\ \A i \in 1..Len(product_links) : IsHttpUrl(product_links[i].url)

C4_Witness ==
    /\ pc = "done"
    /\ flow = "upload"
    /\ response.product_url = <<STORE_ORIGIN \o SLASH \o H_Bare>>

\* C5: every product record returned by the storefront catalog client has a
\* url that starts with "http", whatever the upstream shape of the record.
C5_ClientUrlsAreAbsolute ==
    flow = "candidates" =>
        \A i \in 1..Len(candidates) : startswith(candidates[i].url, HTTP)

\* the numbers a reply declares: its best_match_number, when a number
DeclaredNumbers(outcome) ==
    {outcome.text[i].obj.best_match_number.v :
        i \in {j \in 1..Len(outcome.text) :
                 /\ outcome.text[j].tok = "members"
                 /\ outcome.text[j].obj.best_match_number.t \in {"int", "bool"}}}

\* C6: the matcher returns no match or exactly the candidate at position
\* best_match_number of its list, 1 <= best_match_number <= N; a declared
\* number outside 1..N gives no match.
C6_MatchIsDeclaredCandidate ==
    pc = "ranked" =>
        /\ best_match # <<>> =>
              \E n \in DeclaredNumbers(last_rank) :
                 /\ 1 <= n /\ n <= Len(product_links)
                 /\ best_match[1] = product_links[n]
        /\ (\A n \in DeclaredNumbers(last_rank) : n < 1 \/ n > Len(product_links))
              => best_match = <<>>

C6_Witness ==
    /\ pc = "ranked"
    /\ Len(product_links) = 2
    /\ 2 \in DeclaredNumbers(last_rank)
    /\ best_match = <<product_links[2]>>

\* a reply that holds exactly one JSON object, with or without text around
WellFormedReplies(obj) ==
    {<<Open, Members(obj), Close>>, <<Txt, Open, Members(obj), Close, Txt>>}

\* C7: a reply with no parseable JSON object, or with a best_match_number
\* of the wrong type, gives no match and nothing is raised to the caller.
C7_UnparseableReplyIsNoMatch ==
    (pc = "ranked" /\ last_rank.kind = "reply") =>
        \/ \E obj \in RankObjects :
              /\ last_rank.text \in WellFormedReplies(obj)
              /\ obj.best_match_number.t \in {"int", "null", "absent"}
        \/ best_match = <<>>

\* C8: a failed upstream attempt (a catalog request that raises or answers
\* with another status than 200, a ranking call that raises) counts as no
\* result for that search term only: the run goes on with the next term, and
\* a run that ends without a match has tried every search term.
C8_FailureDoesNotAbort ==
    (InFind /\ failed) =>
        /\ pc = "done" /\ result = <<>> =>
              /\ Len(queries) = Len(terms)
              /\ \A i \in 1..Len(terms) : queries[i] = search_url(terms[i])
        /\ pc = "done" /\ flow = "upload" =>
              /\ response.status = 200
              /\ response.product_url = result
        /\ pc = "search" => Len(queries) = idx - 1 /\ idx <= Len(terms)

\* a match found after an upstream attempt of the same run had failed
C8_Witness ==
    /\ pc = "done"
    /\ flow = "upload"
    /\ failed
    /\ result # <<>>
    /\ Len(queries) = 5
    /\ response.status = 200

\* C9 as stated: when no individual search term produced a match, exactly
\* one further query is issued, for the full item name, after the queries
\* for the individual terms; without a match there the result is no match.
C9_OneFurtherQuery ==
    (InFind /\ pc = "done" /\ terms # <<>> /\ result = <<>>) =>
        LET kt == key_terms(product_name.s)
        IN  /\ Len(queries) = Len(kt) + 1
            /\ \A i \in 1..Len(kt) : queries[i] = search_url(kt[i])
            /\ queries[Len(queries)] = search_url(replace(product_name.s, " ", "+"))

\* C9, amended: when no earlier query produced a match, the last query is
\* the one for the full item name (spaces replaced by "+"); it comes after
\* the queries for the first three key terms and, when there are two or
\* more key terms, after one query for the first two terms joined by "+";
\* without a match there the result is no match.
C9_FullNameQueryIsLast ==
    (InFind /\ pc = "done" /\ terms # <<>> /\ result = <<>>) =>
        LET kt == key_terms(product_name.s)
            n == Min(3, Len(kt))
            combined == IF Len(kt) >= 2 THEN 1 ELSE 0
        IN  /\ Len(queries) = n + combined + 1
            /\ \A i \in 1..n : queries[i] = search_url(kt[i])
            /\ combined = 1 => queries[n + 1] = search_url(kt[1] \o <<"+">> \o kt[2])
            /\ queries[Len(queries)] = search_url(replace(product_name.s, " ", "+"))
            /\ response.product_url = <<>>

C9_Witness ==
    /\ pc = "done"
    /\ flow = "find"
    /\ product_name = PyStr(N_Cup)
    /\ result = <<>>
    /\ Len(queries) = 4
    /\ rank_calls = 4

\* C10: when every search query of a run is exhausted without a match,
\* POST /upload answers 200 with success true, the identification echoed
\* and product_url null.
C10_NoMatchIsNormalOutcome ==
    (flow = "upload" /\ pc = "done" /\ terms # <<>>
        /\ Len(queries) = Len(terms) /\ result = <<>>) =>
        /\ response.status = 200
        /\ response.success
        /\ response.error = ""
        /\ response.identification = identification
        /\ response.product_url = <<>>

C10_Witness ==
    /\ flow = "upload"
    /\ pc = "done"
    /\ identification.identified_item = PyStr(N_Four)
    /\ Len(queries) = 5
    /\ rank_calls = 5
    /\ response.status = 200
    /\ response.product_url = <<>>

InUpload == flow \in {"upload", "upload_candidates"}

\* C11: when the vision-AI key is not configured, a POST /upload that passed
\* the validation of its input is answered with HTTP 500 and the error
\* "AI service not configured", and no vision call, catalog query or ranking
\* call is issued.
C11_MissingKeyIs500 ==
    (InUpload /\ ~api_key /\ pc = "done" /\ response.status # 400)
        => /\ response.status = 500
           /\ response.error = "AI service not configured"
           /\ vision_calls = 0
           /\ queries = <<>>
           /\ rank_calls = 0

\* C12: a POST /upload with no image part, or with an image part whose
\* filename is empty, is answered with HTTP 400, and the handler ends without
\* a vision call, a catalog query or a ranking call.
C12_InvalidUploadIs400 ==
    [][\A has_image \in BOOLEAN, filename_empty \in BOOLEAN :
          ((~has_image \/ filename_empty)
           /\ (UploadImage(has_image, filename_empty)
               \/ UploadImageCandidates(has_image, filename_empty)))
            => /\ response'.status = 400
               /\ pc' = "done"
               /\ vision_calls' = 0
               /\ queries' = <<>>
               /\ rank_calls' = 0]_vars

C12_Witness ==
    /\ flow = "upload_candidates"
    /\ pc = "done"
    /\ response = ErrorResponse(400, "No image file selected")
    /\ vision_calls = 0

\* C13: an exception raised in upload_image after the validation of the
\* input (the vision result is a JSON object without identified_item) is
\* caught by the handler and answered with HTTP 500 and the error "Failed to
\* process image"; every answer of the handler is one of its own.
C13_ExceptionIs500 ==
    /\ (InUpload /\ vision_calls > 0 /\ identification.identified_item.t = "absent")
          => /\ pc = "done"
             /\ response.status = 500
             /\ response.error = "Failed to process image"
    /\ (InUpload /\ pc = "done")
          => /\ response.status \in {200, 400, 500}
             /\ response.status = 500
                   => response.error \in {"Failed to process image",
                                          "AI service not configured"}

C13_Witness ==
    /\ flow = "upload_candidates"
    /\ vision_calls = 1
    /\ identification.identified_item.t = "absent"
    /\ response.status = 500

\* C15: the authenticated commerce API is skipped when any of the three
\* credentials is absent: get_zoho_commerce_products returns [] and issues
\* no HTTP request; the request is issued only when all three are present.
C15_NoCredentialsNoRequest ==
    flow = "biolink" =>
        LET all_present == /\ credentials.client_id
                           /\ credentials.client_secret
                           /\ credentials.access_token
            requested == \E i \in 1..Len(queries) : queries[i] = ZOHO_API_URL
        IN  /\ ~all_present => (~requested /\ pc # "zoho" /\ zoho_products = <<>>)
            /\ (requested \/ pc = "zoho") => all_present

C15_Witness ==
    /\ flow = "biolink"
    /\ pc = "done"
    /\ credentials.client_id /\ credentials.client_secret /\ ~credentials.access_token
    /\ queries = <<SCRAPE_URL>>

\* C16: get_biolink_products tries the authenticated commerce API first and
\* the HTML scrape second, returns the result of the first strategy that is
\* non-empty, and does not attempt the scrape once the commerce API returned
\* products.
C16_StrategiesInOrder ==
    flow = "biolink" =>
        /\ strategies \in {<<"zoho">>, <<"zoho", "scrape">>}
        /\ Len(strategies) = 2 => zoho_products = <<>>
        /\ queries \in {<<>>, <<ZOHO_API_URL>>, <<SCRAPE_URL>>,
                        <<ZOHO_API_URL, SCRAPE_URL>>}
        /\ pc = "done" =>
              /\ zoho_products # <<>>
                    => (catalog = zoho_products /\ strategies = <<"zoho">>)
              /\ (zoho_products = <<>> /\ TruthyList(scraped_products))
                    => catalog = scraped_products.items

C16_Witness ==
    /\ flow = "biolink"
    /\ pc = "done"
    /\ Len(zoho_products) = 2
    /\ catalog = zoho_products
    /\ queries = <<ZOHO_API_URL>>

InTerms == flow \in {"terms", "candidate_terms"}
StopWordsOf(f) == IF f = "terms" THEN stop_words ELSE stop_words_candidates
Words_(name) == split(name)

\* C14: for every name whose whitespace-separated words are all stop-words
\* (in any letter case) or of length <= 2, the term extractor yields the
\* empty list.
C14_OnlyStopWordsNoTerms ==
    InTerms =>
        LET words == Words_(product_name.s)
        IN  (\A i \in 1..Len(words) :
                lower(words[i]) \in StopWordsOf(flow) \/ Len(words[i]) <= 2)
            => terms = <<>>

C14_Witness ==
    /\ flow = "terms"
    /\ pc = "done"
    /\ Len(Words_(product_name.s)) = 2
    /\ Words_(product_name.s)[1] = <<"T", "h", "e">>
    /\ Words_(product_name.s)[2] = <<"a", "b">>
    /\ terms = <<>>

IsAlphabetic(term) ==
    \A i \in 1..Len(term) : \E k \in 1..Len(LowerAlpha) : LowerAlpha[k] = term[i]

RECURSIVE IsSubseq(_, _)
IsSubseq(sub, full) ==
    IF sub = <<>> THEN TRUE
    ELSE IF full = <<>> THEN FALSE
    ELSE IF Head(sub) = Head(full) THEN IsSubseq(Tail(sub), Tail(full))
    ELSE IsSubseq(sub, Tail(full))

\* C20 as stated: every term the extractor produces is a lowercase, purely
\* alphabetic token longer than 2 characters that is not in the stop-word
\* set, and the terms are in the order of the words of the name.
C20_TermsAreAlphabetic ==
    InTerms =>
        /\ \A i \in 1..Len(terms) :
              /\ lower(terms[i]) = terms[i]
              /\ IsAlphabetic(terms[i])
              /\ Len(terms[i]) > 2
              /\ terms[i] \notin StopWordsOf(flow)
        /\ IsSubseq(terms, Words_(lower(product_name.s)))

\* C20 as amended: every term is a lower-cased word of the name (digits and
\* punctuation are kept) longer than 2 characters that is not in the
\* stop-word set, and the terms are in the order of the words of the name.
C20_TermsAreLowerWords ==
    InTerms =>
        /\ \A i \in 1..Len(terms) :
              /\ lower(terms[i]) = terms[i]
              /\ Len(terms[i]) > 2
              /\ terms[i] \notin StopWordsOf(flow)
        /\ IsSubseq(terms, Words_(lower(product_name.s)))

C20_Witness ==
    /\ flow = "candidate_terms"
    /\ pc = "done"
    /\ product_name.s = <<"C", "u", "p", " ", "5", "m", "l">>
    /\ terms = <<<<"c", "u", "p">>, <<"5", "m", "l">>>>

\* the url the client must give a record whose upstream url is href, when
\* href is a path from the root or an absolute URL
RewrittenAs(href, url) ==
    /\ startswith(href, SLASH) => url = STORE_ORIGIN \o href
    /\ startswith(href, HTTP) => url = href

\* C18: a catalog record whose upstream URL is a path beginning with "/"
\* leaves the client with the store origin prepended, an absolute URL is
\* left unchanged, and when the matcher selects that record (match_found
\* true, best_match_number 1) the rewritten URL is what the pipeline returns.
C18_RelativeUrlRewritten ==
    /\ InFind =>
          \A i \in 1..Len(product_links) :
             \E a \in Anchors : /\ strip(a.text) = product_links[i].name
                                /\ RewrittenAs(a.href, product_links[i].url)
    /\ flow \in {"candidates", "upload_candidates"} =>
          \A i \in 1..Len(candidates) :
             \E u \in UpstreamProducts : /\ u.id = candidates[i].id
                                         /\ RewrittenAs(u.url, candidates[i].url)
    /\ (/\ InFind
        /\ pc = "done"
        /\ last_rank = [kind |-> "reply", text |-> <<Open, Members(Match1), Close>>])
          => /\ product_links # <<>>
             /\ result = <<product_links[1].url>>
             /\ flow = "upload" => response.product_url = result

C18_Witness ==
    /\ flow = "upload"
    /\ pc = "done"
    /\ last_rank = [kind |-> "reply", text |-> <<Open, Members(Match1), Close>>]
    /\ response.product_url = <<STORE_ORIGIN \o H_Rel>>

IsPrefix(s, full) == Len(s) <= Len(full) /\ s = SubSeq(full, 1, Len(s))

C21_EveryTermQueried ==
    (InFind /\ pc = "done" /\ terms # <<>> /\ result = <<>>) =>
        LET kt == key_terms(product_name.s)
        IN  \A i \in 1..Len(kt) :
               i <= Len(queries) /\ queries[i] = search_url(kt[i])

\* C21 as amended: when find_product_url ends with no match, the first
\* three key terms have been used as individual catalog queries, in
\* extraction order; a later key term (one that is none of the first three)
\* has not been queried on its own.
C21_FirstThreeTermsQueried ==
    (InFind /\ pc = "done" /\ terms # <<>> /\ result = <<>>) =>
        LET kt == key_terms(product_name.s)
            n == Min(3, Len(kt))
        IN  /\ n <= Len(queries)
            /\ \A i \in 1..n : queries[i] = search_url(kt[i])
            /\ \A j \in (n + 1)..Len(kt) :
                  (\A i \in 1..n : kt[i] # kt[j])
                     => \A q \in 1..Len(queries) : queries[q] # search_url(kt[j])

C21_Witness ==
    /\ flow = "find"
    /\ pc = "done"
    /\ product_name = PyStr(N_Four)
    /\ Len(key_terms(N_Four)) = 4
    /\ result = <<>>
    /\ Len(queries) = 5

\* C22: the matcher parses the first balanced {...} of the reply: when the
\* reply holds a well-formed result object that declares a valid match and
\* is followed by further text that contains a "}" (or a second object), the
\* candidate the first object declares is returned.
C22_FirstObjectIsParsed ==
    (/\ pc = "ranked"
     /\ api_key
     /\ last_rank.kind = "reply"
     /\ Len(last_rank.text) > 3
     /\ SubSeq(last_rank.text, 1, 3) \in {<<Open, Members(Match1), Close>>,
                                          <<Open, Members(Match2), Close>>}
     /\ Close \in {last_rank.text[i] : i \in 4..Len(last_rank.text)}
     /\ last_rank.text[2].obj.best_match_number.v <= Len(product_links))
        => best_match = <<product_links[last_rank.text[2].obj.best_match_number.v]>>

InCandidates == flow \in {"candidates", "upload_candidates"}

\* C23: the storefront client returns the product list of the first endpoint
\* that yields a non-empty result; an endpoint that answers 200 with zero
\* products is passed over, so the client returns an empty list only when
\* every endpoint of its list has been tried.
C23_EmptyOnlyAfterEveryEndpoint ==
    (InCandidates /\ pc = "done" /\ queries # <<>> /\ candidates = <<>>)
        => Len(queries) = Len(api_urls(terms))

\* C24: in the storefront client, when search terms are supplied, every
\* per-term query is attempted before any unrestricted query: the product
\* listing and the "all" search come only after the last per-term query.
C24_TermQueriesBeforeUnrestricted ==
    (InCandidates /\ SearchUrls(terms) # <<>>) =>
        \A i \in 1..Len(queries) :
            queries[i] \in {API_PRODUCTS, API_SEARCH \o ALL} =>
                \A k \in 1..Len(SearchUrls(terms)) :
                    \E j \in 1..(i - 1) : queries[j] = SearchUrls(terms)[k]

NoCaseDuplicates(list) ==
    \A i \in 1..Len(list), j \in 1..Len(list) :
        i # j => lower(list[i].name) # lower(list[j].name)

\* C25: a list returned by the catalog query client never holds two records
\* whose names are equal when compared case-insensitively.
C25_NamesUniqueIgnoringCase ==
    /\ InFind => NoCaseDuplicates(product_links)
    /\ InCandidates => NoCaseDuplicates(candidates)
    /\ flow = "biolink" => NoCaseDuplicates(catalog)

\* C26: scrape_biolink_products returns an empty list, and no other value,
\* for every upstream outcome that gives no products: a status other than
\* 200, a network error, a page without product markup.
C26_ScrapeReturnsEmptyList ==
    (/\ flow = "biolink"
     /\ pc = "done"
     /\ \E i \in 1..Len(queries) : queries[i] = SCRAPE_URL
     /\ scraped_products.items = <<>>)
        => scraped_products = PyList(<<>>)

\* C27: the matcher is never invoked with an empty candidate list: every
\* ranking call comes after a catalog query that returned at least one
\* record, and the candidate it returns is a record of that list.
C27_MatcherGetsCandidates ==
    InFind =>
        /\ pc \in {"rank", "ranked"} => (product_links # <<>> /\ queries # <<>>)
        /\ rank_calls <= Len(queries)
        /\ (pc = "ranked" /\ best_match # <<>>)
              => \E i \in 1..Len(product_links) : best_match[1] = product_links[i]

C27_Witness ==
    /\ flow = "upload"
    /\ pc = "ranked"
    /\ rank_calls = 2
    /\ Len(queries) = 3
    /\ Len(product_links) = 1

\* C28: every run of find_product_url ends with a result (a URL or None)
\* after at most 5 catalog queries and at most 5 ranking calls, for any item
\* name and any upstream responses, provided each upstream call returns or
\* fails.
C28_EndsWithinFiveQueries ==
    /\ [](flow = "find" => (Len(queries) <= 5 /\ rank_calls <= 5 /\ Len(terms) <= 5))
    /\ (flow = "find") ~> (pc = "done")

C28_Witness ==
    /\ flow = "find"
    /\ pc = "done"
    /\ product_name = PyStr(N_Four)
    /\ Len(queries) = 5
    /\ rank_calls = 5
    /\ result = <<>>

\* the vision step fails: the call raises, or the reply holds no JSON object
\* or a malformed one (braces with no members between them but text)
VisionFails(outcome) ==
    \/ outcome.kind = "raise"
    \/ /\ \A i \in 1..Len(outcome.text) : outcome.text[i].tok # "members"
       /\ outcome.text # <<Open, Close>>

\* C29: if the vision step fails (the call raises, the reply holds no JSON
\* object, or its JSON is malformed), the identification has identified_item
\* "Not Found" and the /upload request ends with HTTP 200, success true,
\* product_url null, and without a catalog query or a ranking call.
C29_VisionFailureIsNotFound ==
    [][\A outcome \in VisionOutcomes :
          (flow = "upload" /\ VisionFails(outcome) /\ Identify(outcome))
            => /\ identification'.identified_item = PyStr(NOT_FOUND)
               /\ pc' = "done"
               /\ response'.status = 200
               /\ response'.success
               /\ response'.identification = identification'
               /\ response'.product_url = <<>>
               /\ queries' = <<>>
               /\ rank_calls' = 0]_vars

C29_Witness ==
    /\ flow = "upload"
    /\ pc = "done"
    /\ vision_calls = 1
    /\ identification = NotFoundResult
    /\ response = OkResponse(NotFoundResult, <<>>)
    /\ queries = <<>>

\* C30: find_product_candidates returns at most 10 records, and they are
\* the first min(10, n) records of the catalog client's result, in the same
\* order; it returns the empty list when the client returns nothing or
\* raises.
C30_FirstTenCandidates ==
    [][\A outcome \in StorefrontOutcomes :
          (InCandidates /\ ClientTry(outcome) /\ pc' = "done")
            => LET r == StorefrontTry(outcome)
                   client == IF r.exc \/ ~r.returns THEN <<>> ELSE r.ret
               IN  /\ Len(candidates') <= 10
                   /\ Len(candidates') = Min(10, Len(client))
                   /\ \A i \in 1..Len(candidates') : candidates'[i] = client[i]]_vars

C30_Witness ==
    /\ flow = "candidates"
    /\ pc = "done"
    /\ Len(candidates) = 10
    /\ candidates[1].id = U_Abs.id
    /\ candidates[10].id = U_IdOnly.id

====
